---- MODULE Spec2Model ----
(***************************************************************************)
(* Model of book_png.py: the metric -> colour -> raster pipeline and the   *)
(* tooltip lookup, zoom and pan of the generated HTML viewer.              *)
(*                                                                         *)
(* Numbers.  Python floats are modelled as exact fractions <<num, den>>    *)
(* with den > 0; int() is truncation, round() is round-half-to-even.       *)
(* Exact arithmetic can differ from the float result by one unit where a   *)
(* product falls within rounding error of an integer (rainbow(0.2) has red *)
(* 203 in floats, 204 here).                                               *)
(* math.log is modelled to three decimals (LogMilli), which keeps the two  *)
(* facts the metrics depend on: log(1) = 0 and log strictly increasing.    *)
(* The Mersenne Twister behind the random module is modelled as a 16-bit   *)
(* linear congruential generator: seeding fixes the state, every draw      *)
(* advances it.                                                            *)
(***************************************************************************)
EXTENDS Integers, Sequences, FiniteSets, TLC

\* ------------------------------------------------------------------ bounds
MaxLen == 4
NumEntropy == 2
MaxRuns == 2
MaxViewLen == 5
\* per opened page: clicks on the zoom buttons; wheel events and drags
MaxClicks == 14
MaxGestures == 1

\* ---------------------------------------------------------------- the input
\* Tokens nltk.word_tokenize can hand back: a capitalised word, a
\* punctuation mark, a number.
RawTokens == {"The", ".", "42"}

RECURSIVE SeqsUpTo(_, _)
SeqsUpTo(S, n) ==
    IF n = 0 THEN {<<>>}
    ELSE LET shorter == SeqsUpTo(S, n - 1)
         IN  shorter \cup {Append(s, t) : s \in {q \in shorter : Len(q) = n - 1}, t \in S}

Texts == SeqsUpTo(RawTokens, MaxLen)

\* the files and metrics the viewer is opened on
ViewTexts == SeqsUpTo({"The", "."}, MaxViewLen)
ViewMetrics == {"word-position", "bigram-prob"}
\* the file the zooming viewer is opened on
ZoomTexts == {[i \in 1..MaxViewLen |-> "The"]}

MetricNames == {"word-freq", "word-freq-linear", "bigram-prob", "bigram-diversity",
                "word-length", "word-position", "unique-word"}

ColorNames == {"red-blue", "blue-red", "heat", "grayscale", "green-purple",
               "rainbow", "random"}

BigramMetrics == {"bigram-prob", "bigram-diversity"}

\* str.lower, str.isalnum, str.isnumeric, len on the tokens of RawTokens
Lower(t) == IF t = "The" THEN "the" ELSE t
IsAlnum(t) == t # "."
IsNumeric(t) == t = "42"
StrLen(t) == IF t \in {"The", "the"} THEN 3 ELSE IF t = "42" THEN 2 ELSE 1

NotNumeric(t) == ~IsNumeric(t)

\* main, lines 555-562: case-fold, then punctuation filter, then number filter
ApplyFilters(text, ic, ip, inum) ==
    LET w1 == IF ic THEN [i \in 1..Len(text) |-> Lower(text[i])] ELSE text
        w2 == IF ip THEN SelectSeq(w1, IsAlnum) ELSE w1
    IN  IF inum THEN SelectSeq(w2, NotNumeric) ELSE w2

\* ------------------------------------------------------------- arithmetic
MaxOf(S) == CHOOSE m \in S : \A x \in S : x <= m

\* int(num/den): truncation toward zero
PyInt(num, den) == IF num >= 0 THEN num \div den ELSE -((-num) \div den)

\* round(num/den): nearest integer, ties to even
PyRound(num, den) ==
    LET q == num \div den
        r2 == 2 * (num % den)
    IN  IF r2 < den THEN q
        ELSE IF r2 > den THEN q + 1
        ELSE IF q % 2 = 0 THEN q ELSE q + 1

\* 1000 * math.log(c), to the nearest integer, for the counts that occur
LogMilli(c) == <<0, 693, 1099, 1386, 1609, 1792, 1946, 2079>>[c]

FracEq(a, b) == a[1] * b[2] = b[1] * a[2]

\* ---------------------------------------------------------------- metrics
\* A generator's outcome once list() has drained it: the values, or the
\* exception that draining raised.
Yielded(vals) == [exc |-> "none", vals |-> vals]
Raised(e) == [exc |-> e, vals |-> <<>>]

\* nltk.FreqDist(words)[w]
Count(words, w) == Cardinality({i \in DOMAIN words : words[i] = w})

\* freq[freq.max()]; FreqDist.max() raises ValueError on an empty distribution
MaxCount(words) == MaxOf({Count(words, words[i]) : i \in DOMAIN words})

word_frequency(words) ==
    IF words = <<>> THEN Raised("ValueError")
    ELSE LET max_log == LogMilli(MaxCount(words))
         IN  IF max_log = 0 THEN Raised("ZeroDivisionError")
             ELSE Yielded([i \in 1..Len(words) |->
                              <<LogMilli(Count(words, words[i])), max_log>>])

word_frequency_linear(words) ==
    IF words = <<>> THEN Raised("ValueError")
    ELSE LET max_freq == MaxCount(words)
         IN  Yielded([i \in 1..Len(words) |-> <<Count(words, words[i]), max_freq>>])

\* list(nltk.bigrams(words))
Bigrams(words) == [i \in 1..(Len(words) - 1) |-> <<words[i], words[i + 1]>>]

\* cfd[w1][w2], cfd[w1].N(), len(cfd[w1]) of nltk.ConditionalFreqDist(bigrams)
PairCount(bigrams, w1, w2) ==
    Cardinality({i \in DOMAIN bigrams : bigrams[i] = <<w1, w2>>})
CondTotal(bigrams, w1) ==
    Cardinality({i \in DOMAIN bigrams : bigrams[i][1] = w1})
Successors(bigrams, w1) ==
    {bigrams[i][2] : i \in {j \in DOMAIN bigrams : bigrams[j][1] = w1}}

bigram_probability(words) ==
    LET bigrams == Bigrams(words)
    IN  IF bigrams = <<>> THEN Yielded(<<>>)
        ELSE Yielded([i \in 1..Len(bigrams) |->
                 <<PairCount(bigrams, bigrams[i][1], bigrams[i][2]),
                   CondTotal(bigrams, bigrams[i][1])>>])

bigram_diversity(words) ==
    LET bigrams == Bigrams(words)
    IN  IF bigrams = <<>> THEN Yielded(<<>>)
        ELSE LET max_count == MaxOf({Cardinality(Successors(bigrams, bigrams[i][1])) :
                                        i \in DOMAIN bigrams})
             IN  Yielded([i \in 1..Len(bigrams) |->
                     <<Cardinality(Successors(bigrams, bigrams[i][1])), max_count>>])

word_length(words) ==
    LET max_len == IF words # <<>> THEN MaxOf({StrLen(words[i]) : i \in DOMAIN words})
                   ELSE 1
    IN  Yielded([i \in 1..Len(words) |-> <<StrLen(words[i]), max_len>>])

word_position(words) ==
    LET total == Len(words)
    IN  Yielded([i \in 1..Len(words) |->
            IF total > 0 THEN <<i - 1, total>> ELSE <<0, 1>>])

\* first pass of unique_word_id (lines 150-156): the dictionary word_ids and
\* the counter unique_count after the words from position i on are seen
RECURSIVE AssignIds(_, _, _, _)
AssignIds(words, i, word_ids, unique_count) ==
    IF i > Len(words) THEN [word_ids |-> word_ids, unique_count |-> unique_count]
    ELSE IF words[i] \notin DOMAIN word_ids
         THEN AssignIds(words, i + 1, (words[i] :> unique_count) @@ word_ids,
                        unique_count + 1)
         ELSE AssignIds(words, i + 1, word_ids, unique_count)

\* MaxId dividing by the number of ids instead of the largest id
MaxId_OffByOne(unique_count) == IF unique_count > 1 THEN unique_count ELSE 1

MaxId(unique_count) == IF unique_count > 1 THEN unique_count - 1 ELSE 1

unique_word_id(words) ==
    LET pass1 == AssignIds(words, 1, <<>>, 0)
        max_id == MaxId(pass1.unique_count)
    IN  Yielded([i \in 1..Len(words) |-> <<pass1.word_ids[words[i]], max_id>>])

RunMetric(name, words) ==
    CASE name = "word-freq"        -> word_frequency(words)
      [] name = "word-freq-linear" -> word_frequency_linear(words)
      [] name = "bigram-prob"      -> bigram_probability(words)
      [] name = "bigram-diversity" -> bigram_diversity(words)
      [] name = "word-length"      -> word_length(words)
      [] name = "word-position"    -> word_position(words)
      [] name = "unique-word"      -> unique_word_id(words)


\* ---------------------------------------------------------- colour mappers
\* Each takes the clamped value and the generator state; it returns the
\* triple, the generator state it leaves behind, and the seeds it set.
Plain(rgb, rng) == [rgb |-> rgb, rng |-> rng, seeds |-> <<>>]

\* int(value * 255)
Scale255(value) == PyInt(value[1] * 255, value[2])

red_blue(value) == LET v == Scale255(value) IN <<v, 0, 255 - v>>

blue_red(value) == LET v == Scale255(value) IN <<255 - v, 0, v>>

\* 0.33 and 0.66 are 33/100 and 66/100; (value - 0.33) * 3 * 255 is
\* (100 num - 33 den) * 765 / (100 den)
heat(value) ==
    LET num == value[1]
        den == value[2]
    IN  IF 100 * num < 33 * den
        THEN <<PyInt(num * 3 * 255, den), 0, 0>>
        ELSE IF 100 * num < 66 * den
        THEN <<255, PyInt((100 * num - 33 * den) * 3 * 255, 100 * den), 0>>
        ELSE <<255, 255, PyInt((100 * num - 66 * den) * 3 * 255, 100 * den)>>

grayscale(value) == LET v == Scale255(value) IN <<v, v, v>>

green_purple(value) == LET v == Scale255(value) IN <<v, 255 - v, v>>

\* colorsys.hsv_to_rgb(h, 1.0, 1.0): i = int(h * 6), f = h * 6 - i, p = 0,
\* q = 1 - f, t = f, the sextant i % 6 picks the order.  The result is
\* three fractions over the same denominator.
hsv_to_rgb(h) ==
    LET den == h[2]
        i == PyInt(h[1] * 6, den)
        f == h[1] * 6 - i * den
        v == den
        p == 0
        q == den - f
        t == f
        k == i % 6
    IN  CASE k = 0 -> <<v, t, p>>
          [] k = 1 -> <<q, v, p>>
          [] k = 2 -> <<p, v, t>>
          [] k = 3 -> <<p, q, v>>
          [] k = 4 -> <<t, p, v>>
          [] k = 5 -> <<v, p, q>>

rainbow(value) ==
    LET c == hsv_to_rgb(value)
    IN  <<PyInt(c[1] * 255, value[2]), PyInt(c[2] * 255, value[2]),
          PyInt(c[3] * 255, value[2])>>

\* random.seed(s), and one step of the generator with the randint(0, 255)
\* it produces
RngSeed(s) == (s * 4099 + 977) % 65536
RngNext(st) == (st * 25173 + 13849) % 65536
RandInt255(st) == (st \div 256) % 256

\* SeedOf with round() in place of int()
SeedOf_Rounded(value) == PyRound(value[1] * 10000, value[2])

\* the argument of random.seed in random_per_value
SeedOf(value) == PyInt(value[1] * 10000, value[2])

\* SeededState without the call of random.seed
SeededState_NoReseed(value, rng) == rng

\* the state random_per_value draws from: random.seed discards the state
\* the generator was in
SeededState(value, rng) == RngSeed(SeedOf(value))

random_per_value(value, rng) ==
    LET s0 == SeededState(value, rng)
        s1 == RngNext(s0)
        s2 == RngNext(s1)
        s3 == RngNext(s2)
    IN  [rgb |-> <<RandInt255(s1), RandInt255(s2), RandInt255(s3)>>,
         rng |-> s3,
         seeds |-> <<SeedOf(value)>>]

ApplyColor(name, value, rng) ==
    CASE name = "red-blue"     -> Plain(red_blue(value), rng)
      [] name = "blue-red"     -> Plain(blue_red(value), rng)
      [] name = "heat"         -> Plain(heat(value), rng)
      [] name = "grayscale"    -> Plain(grayscale(value), rng)
      [] name = "green-purple" -> Plain(green_purple(value), rng)
      [] name = "rainbow"      -> Plain(rainbow(value), rng)
      [] name = "random"       -> random_per_value(value, rng)

\* ---------------------------------------------------------------- renderer
\* ImageSize with math.floor in place of math.ceil
ImageSize_Floor(n) == CHOOSE s \in 1..n : s * s <= n /\ (s + 1) * (s + 1) > n

\* int(math.ceil(math.sqrt(n))) for n >= 1
ImageSize(n) == CHOOSE s \in 1..n : s * s >= n /\ (s - 1) * (s - 1) < n

PixelX(i, size) == i % size
PixelY(i, size) == i \div size

\* max(0.0, min(1.0, val))
Clamp(val) ==
    LET low == IF val[1] > val[2] THEN <<1, 1>> ELSE val
    IN  IF low[1] < 0 THEN <<0, 1>> ELSE low

\* Image.putpixel stores each channel as one byte
Clip8(c) == IF c < 0 THEN 0 ELSE IF c > 255 THEN 255 ELSE c
Ink(rgb) == <<Clip8(rgb[1]), Clip8(rgb[2]), Clip8(rgb[3])>>

NoImage == [present |-> FALSE, size |-> 0, px |-> <<>>]

\* Image.new("RGB", (size, size), color=(0, 0, 0))
NewImage(size) ==
    [present |-> TRUE, size |-> size,
     px |-> [xy \in (0..(size - 1)) \X (0..(size - 1)) |-> <<0, 0, 0>>]]

\* the loop of render (lines 200-207) from index i on; r carries the image,
\* the labels collected, the generator state, and the record of the calls
\* made: the coordinates written, the triples the mapper returned, the
\* seeds set
RECURSIVE RenderLoop(_, _, _, _, _, _)
RenderLoop(vals, color, labels, size, i, r) ==
    IF i >= Len(vals) THEN r
    ELSE LET val == vals[i + 1]
             x == PixelX(i, size)
             y == PixelY(i, size)
             c == ApplyColor(color, Clamp(val), r.rng)
             mapped == [r EXCEPT !.rng = c.rng,
                                 !.colors = Append(@, c.rgb),
                                 !.seeds = @ \o c.seeds]
         IN  IF <<x, y>> \notin DOMAIN r.img.px
             THEN [mapped EXCEPT !.exc = "IndexError"]
             ELSE RenderLoop(vals, color, labels, size, i + 1,
                     [mapped EXCEPT
                        !.img.px[<<x, y>>] = Ink(c.rgb),
                        !.putlog = Append(@, <<x, y>>),
                        !.word_data = IF labels # <<>> /\ i < Len(labels)
                                      THEN Append(@, <<labels[i + 1], val>>)
                                      ELSE @])

\* render(values, color_fn, output_path, words): gen is the outcome of
\* list(values)
render(gen, color, labels, rng0) ==
    LET blank == [exc |-> "none", img |-> NoImage, word_data |-> <<>>, rng |-> rng0,
                  putlog |-> <<>>, colors |-> <<>>, seeds |-> <<>>,
                  saved |-> FALSE, stderr |-> <<>>, stdout |-> <<>>]
    IN  IF gen.exc # "none" THEN [blank EXCEPT !.exc = gen.exc]
        ELSE IF gen.vals = <<>>
        THEN [blank EXCEPT !.stderr = <<"No values to render">>]
        ELSE LET size == ImageSize(Len(gen.vals))
                 done == RenderLoop(gen.vals, color, labels, size, 0,
                                    [blank EXCEPT !.img = NewImage(size)])
             IN  IF done.exc # "none" THEN done
                 ELSE [done EXCEPT !.saved = TRUE, !.stdout = <<"Saved png">>]

\* -------------------------------------------------------------- HTML export
\* round(v, 4), in units of 1/10000
Round4(v) == PyRound(v[1] * 10000, v[2])

NoHtml == [present |-> FALSE, SIZE |-> 0, WORDS |-> <<>>, VALUES |-> <<>>]

\* render_html: the constants the page is generated with (lines 233-234,
\* 367-369)
render_html(size_, word_data_) ==
    [present |-> TRUE, SIZE |-> size_,
     WORDS |-> [i \in 1..Len(word_data_) |-> word_data_[i][1]],
     VALUES |-> [i \in 1..Len(word_data_) |-> Round4(word_data_[i][2])]]

\* ShouldExport without the test of img
ShouldExport_HtmlOnly(html_, img_) == html_

\* main, line 591: if args.html and img
ShouldExport(html_, img_) == html_ /\ img_.present

\* TooltipIdx with x and y exchanged
TooltipIdx_Transposed(x, y, SIZE) == x * SIZE + y

\* the viewer's lookup, line 456
TooltipIdx(x, y, SIZE) == y * SIZE + x

\* the viewer's guard, line 458
TooltipVisible(x, y, idx, page) ==
    x >= 0 /\ x < page.SIZE /\ y >= 0 /\ y < page.SIZE /\ idx < Len(page.WORDS)

NoTooltip == [shown |-> FALSE, word |-> <<>>, details |-> <<>>]

\* ------------------------------------------------- the viewer's view state
\* JavaScript numbers of the viewer script are fractions <<num, den>> in
\* lowest terms with den > 0.
RECURSIVE Gcd(_, _)
Gcd(a, b) == IF b = 0 THEN a ELSE Gcd(b, a % b)

Frac(num, den) ==
    LET g == Gcd(IF num < 0 THEN -num ELSE num, den)
    IN  <<num \div g, den \div g>>

FracInt(n) == <<n, 1>>
\* sums and products cancel common factors before they multiply
FracAdd(a, b) ==
    LET g == Gcd(a[2], b[2])
    IN  Frac(a[1] * (b[2] \div g) + b[1] * (a[2] \div g), (a[2] \div g) * b[2])
FracSub(a, b) == FracAdd(a, <<-b[1], b[2]>>)
FracMul(a, b) ==
    LET x == Frac(a[1], b[2])
        y == Frac(b[1], a[2])
    IN  <<x[1] * y[1], x[2] * y[2]>>
\* a / b for b > 0
FracDiv(a, b) == FracMul(a, <<b[2], b[1]>>)
FracLe(a, b) == a[1] * b[2] <= b[1] * a[2]
\* Math.min, Math.max, Math.floor
FracMin(a, b) == IF FracLe(a, b) THEN a ELSE b
FracMax(a, b) == IF FracLe(a, b) THEN b ELSE a
FracFloor(a) == a[1] \div a[2]

\* the limits in zoomIn, zoomOut and the wheel handler: 0.1 and 200
MinScale == <<1, 10>>
MaxScale == <<200, 1>>
\* the factor of the zoom buttons, 1.5
ButtonFactor == <<3, 2>>

\* zoomIn, line 399
ZoomInScale(s) == FracMin(FracMul(s, ButtonFactor), MaxScale)

\* zoomOut without Math.max
ZoomOutScale_NoLimit(s) == FracDiv(s, ButtonFactor)

\* zoomOut, line 404
ZoomOutScale(s) == FracMax(FracDiv(s, ButtonFactor), MinScale)

\* the wheel handler, line 425: 1.2 when deltaY < 0, else 0.8
ZoomFactor(deltaNeg) == IF deltaNeg THEN <<6, 5>> ELSE <<4, 5>>

\* the wheel handler, line 426
WheelScale(s, deltaNeg) ==
    FracMax(MinScale, FracMin(MaxScale, FracMul(s, ZoomFactor(deltaNeg))))

\* centerImage, lines 393-394: (extent - SIZE * scale) / 2
CenterPan(extent, SIZE, s) ==
    FracDiv(FracSub(FracInt(extent), FracMul(FracInt(SIZE), s)), FracInt(2))

\* the wheel handler, lines 421-422 and 429-430: the image point under the
\* pointer before the zoom stays under it
WheelPan(mouse, pan, s, s2) ==
    LET imgPos == FracDiv(FracSub(FracInt(mouse), pan), s)
    IN  FracSub(FracInt(mouse), FracMul(imgPos, s2))

\* #container, lines 294-295: top: 50px, left: 0
ContainerTop == 50
ContainerLeft == 0

\* the mousemove handler, lines 453-455: the pixel under the pointer, from
\* the image's rectangle (its corner is the container's corner plus the pan,
\* its side is SIZE * scale)
HoverPixel(client, corner, pan, s) ==
    FracFloor(FracDiv(FracSub(FracInt(client - corner), pan), s))

\* sizes of the container, and positions of the pointer in client
\* coordinates: the centre of the container at either size
Viewports == {<<8, 6>>, <<10, 8>>}
Pointers == {<<ContainerLeft + vp[1] \div 2, ContainerTop + vp[2] \div 2>> : vp \in Viewports}

\* ------------------------------------------------------------------- state
VARIABLES
    pc,             \* where the run is: "start", "render", "export", "done"
    runs,           \* invocations of the command so far
    words,          \* the filtered token list
    display_words,  \* the labels handed to render
    metric, color, html,   \* args.metric, args.color, args.html
    values,         \* list(values) in render
    raised,         \* the exception that ended the run, or "none"
    img, size, word_data,  \* what render returned
    stdout, stderr, \* what the run printed
    exit,           \* "running", "ok", "error" (sys.exit(1)), "traceback"
    pngFile,        \* the image file on disk
    htmlFile,       \* the viewer page on disk
    prevPng,        \* the image file as the previous invocation left it
    putlog,         \* coordinates of the putpixel calls, in call order
    colors,         \* triples returned by the colour mapper, in call order
    seeds,          \* arguments of random.seed, in call order
    tooltip,        \* the viewer's tooltip element
    hover,          \* pixel coordinates computed by the last mousemove
    event,          \* the viewer event handled last, "none" before the page is open
    viewport,       \* width and height of the container's rectangle
    scale, panX, panY,   \* the viewer script's variables
    drag,           \* the drag under way: NoDrag, or what mousedown stored
    nClicks, nGestures   \* zoom clicks; wheel events and drags so far

vars == <<pc, runs, words, display_words, metric, color, html, values, raised,
          img, size, word_data, stdout, stderr, exit, pngFile, htmlFile,
          prevPng, putlog, colors, seeds, tooltip, hover,
          event, viewport, scale, panX, panY, drag,
          nClicks, nGestures>>

runVars == <<words, display_words, metric, color, html>>
renderVars == <<values, raised, img, size, word_data, putlog, colors, seeds>>
countVars == <<nClicks, nGestures>>
zoomVars == <<event, viewport, scale, panX, panY, drag, countVars>>
viewVars == <<tooltip, hover, zoomVars>>

\* The states the random module's generator can be in when render is entered
\* (the interpreter seeds it from the operating system).  Nothing reads the
\* generator after render, so its state is an input of that step and is not
\* kept between steps.
Entropy == {RngSeed(20001 + e) : e \in 0..(NumEntropy - 1)}

\* The script's isDragging, dragStartX, dragStartY, dragStartPanX and
\* dragStartPanY (lines 380-384) are one value: the four numbers are read
\* only while isDragging (lines 446-448) and mousedown overwrites all four
\* (lines 439-442), so they are kept while a drag is under way and are
\* NoDrag otherwise.
NoDrag == <<>>
isDragging == drag # NoDrag

\* the script's declarations, lines 377-384
ScriptStart ==
    /\ scale = FracInt(1)
    /\ panX = FracInt(0)
    /\ panY = FracInt(0)
    /\ drag = NoDrag

Init ==
    /\ pc = "start"
    /\ runs = 1
    /\ words = <<>>
    /\ display_words = <<>>
    /\ metric = "word-freq"
    /\ color = "red-blue"
    /\ html = FALSE
    /\ values = <<>>
    /\ raised = "none"
    /\ img = NoImage
    /\ size = 0
    /\ word_data = <<>>
    /\ stdout = <<>>
    /\ stderr = <<>>
    /\ exit = "running"
    /\ pngFile = NoImage
    /\ htmlFile = NoHtml
    /\ prevPng = NoImage
    /\ putlog = <<>>
    /\ colors = <<>>
    /\ seeds = <<>>
    /\ tooltip = NoTooltip
    /\ hover = <<>>
    /\ event = "none"
    /\ viewport = <<0, 0>>
    /\ ScriptStart
    /\ nClicks = 0
    /\ nGestures = 0

\* main with --list (lines 536-538)
MainList ==
    /\ pc = "start"
    /\ pc' = "done"
    /\ stdout' = <<"Available metrics", "Available color schemes">>
    /\ exit' = "ok"
    /\ UNCHANGED <<runs, runVars, renderVars, stderr, pngFile, htmlFile,
                   prevPng, viewVars>>

\* main without a file argument (lines 540-542)
MainUsage ==
    /\ pc = "start"
    /\ pc' = "done"
    /\ stdout' = <<"usage">>
    /\ exit' = "ok"
    /\ UNCHANGED <<runs, runVars, renderVars, stderr, pngFile, htmlFile,
                   prevPng, viewVars>>

\* main with a file that does not exist (lines 544-547)
MainMissing ==
    /\ pc = "start"
    /\ pc' = "done"
    /\ stderr' = <<"Error: File not found">>
    /\ exit' = "error"
    /\ UNCHANGED <<runs, runVars, renderVars, stdout, pngFile, htmlFile,
                   prevPng, viewVars>>

\* the labels of main, lines 581-584
DisplayWords(m, ws) ==
    IF m \in BigramMetrics THEN Bigrams(ws) ELSE [i \in 1..Len(ws) |-> <<ws[i]>>]

\* main, lines 549-587: read and tokenize, filter, choose metric and colour
MainLoad(text, ic, ip, inum, m, c, h) ==
    /\ pc = "start"
    /\ pc' = "render"
    /\ words' = ApplyFilters(text, ic, ip, inum)
    /\ display_words' = DisplayWords(m, words')
    /\ metric' = m
    /\ color' = c
    /\ html' = h
    /\ stdout' = <<"Loaded">>
    /\ UNCHANGED <<runs, renderVars, stderr, exit, pngFile, htmlFile,
                   prevPng, viewVars>>

\* main, line 588: render drains the metric generator and draws; an
\* exception ends the process with a traceback
MainRender(rng0) ==
    /\ pc = "render"
    /\ \E gen \in {RunMetric(metric, words)} :
       \E r \in {render(gen, color, display_words, rng0)} :
       LET ok == r.exc = "none"
       IN  /\ values' = gen.vals
           /\ raised' = r.exc
           /\ putlog' = r.putlog
           /\ colors' = r.colors
           /\ seeds' = r.seeds
           /\ stdout' = stdout \o r.stdout
           /\ stderr' = stderr \o r.stderr \o (IF ok THEN <<>> ELSE <<"Traceback">>)
           /\ pngFile' = IF r.saved THEN r.img ELSE pngFile
           /\ img' = IF ok THEN r.img ELSE img
           /\ size' = IF ok THEN r.img.size ELSE size
           /\ word_data' = IF ok THEN r.word_data ELSE word_data
           /\ pc' = IF ok THEN "export" ELSE "done"
           /\ exit' = IF ok THEN exit ELSE "traceback"
    /\ UNCHANGED <<runs, runVars, htmlFile, prevPng, viewVars>>

\* main, lines 591-593, and the return of main.  render_html calls img.save,
\* which raises AttributeError when img is None.
MainExport ==
    /\ pc = "export"
    /\ pc' = "done"
    /\ IF ShouldExport(html, img)
       THEN IF img.present
            THEN /\ htmlFile' = render_html(size, word_data)
                 /\ stdout' = Append(stdout, "Saved html")
                 /\ exit' = "ok"
                 /\ UNCHANGED <<stderr, raised>>
            ELSE /\ raised' = "AttributeError"
                 /\ stderr' = Append(stderr, "Traceback")
                 /\ exit' = "traceback"
                 /\ UNCHANGED <<htmlFile, stdout>>
       ELSE /\ exit' = "ok"
            /\ UNCHANGED <<htmlFile, stdout, stderr, raised>>
    /\ UNCHANGED <<runs, runVars, values, img, size, word_data, putlog, colors,
                   seeds, pngFile, prevPng, viewVars>>

\* the viewer's mousemove handler while no drag is under way (lines
\* 445-469, isDragging false).  qx2 and qy2 are the
\* quotients (clientX - rect.left) / (rect.width / SIZE) and
\* (clientY - rect.top) / (rect.height / SIZE) in half cells.
MouseMove(qx2, qy2) ==
    /\ pc = "done"
    /\ htmlFile.present
    /\ ~isDragging
    /\ LET x == qx2 \div 2
           y == qy2 \div 2
           idx == TooltipIdx(x, y, htmlFile.SIZE)
       IN  /\ hover' = <<x, y>>
           /\ tooltip' = IF TooltipVisible(x, y, idx, htmlFile)
                         THEN [shown |-> TRUE,
                               word |-> htmlFile.WORDS[idx + 1],
                               details |-> <<idx, htmlFile.VALUES[idx + 1]>>]
                         ELSE [tooltip EXCEPT !.shown = FALSE]
    /\ event' = "mousemove"
    /\ UNCHANGED <<pc, runs, runVars, renderVars, stdout, stderr, exit,
                   pngFile, htmlFile, prevPng, viewport, scale, panX, panY,
                   drag, countVars>>

\* what the viewer's events leave alone: the run and the files it wrote
pageVars == <<pc, runs, runVars, renderVars, stdout, stderr, exit,
              pngFile, htmlFile, prevPng>>

\* the page is open in a browser once its container has been laid out
PageOpened == pc = "done" /\ htmlFile.present /\ viewport # <<0, 0>>

\* centerImage, lines 391-396, in a container of size vp at scale s
CenterImage(vp, s) ==
    /\ panX' = CenterPan(vp[1], htmlFile.SIZE, s)
    /\ panY' = CenterPan(vp[2], htmlFile.SIZE, s)

\* the page is opened in a window whose container has size vp: the script
\* runs and the load event calls centerImage (line 477)
PageOpen(vp) ==
    /\ pc = "done"
    /\ htmlFile.present
    /\ viewport = <<0, 0>>
    /\ viewport' = vp
    /\ event' = "load"
    /\ CenterImage(vp, scale)
    /\ UNCHANGED <<pageVars, tooltip, hover, scale, drag, countVars>>

\* A click on a button of the header.  The buttons are outside the
\* container (lines 345-358), so the press does not reach the mousedown
\* handler; the release reaches the mouseup handler of the window (lines
\* 471-474) before the click runs the button's function.

\* the "+ Zoom" button, lines 398-401
ZoomIn ==
    /\ PageOpened
    /\ nClicks < MaxClicks
    /\ nClicks' = nClicks + 1
    /\ scale' = ZoomInScale(scale)
    /\ CenterImage(viewport, scale')
    /\ drag' = NoDrag
    /\ event' = "zoomIn"
    /\ UNCHANGED <<pageVars, tooltip, hover, viewport, nGestures>>

\* the "- Zoom" button, lines 403-406
ZoomOut ==
    /\ PageOpened
    /\ nClicks < MaxClicks
    /\ nClicks' = nClicks + 1
    /\ scale' = ZoomOutScale(scale)
    /\ CenterImage(viewport, scale')
    /\ drag' = NoDrag
    /\ event' = "zoomOut"
    /\ UNCHANGED <<pageVars, tooltip, hover, viewport, nGestures>>

\* the "Reset" button, lines 408-411
ResetView ==
    /\ PageOpened
    /\ scale' = FracInt(1)
    /\ CenterImage(viewport, scale')
    /\ drag' = NoDrag
    /\ event' = "resetView"
    /\ UNCHANGED <<pageVars, tooltip, hover, viewport, countVars>>

\* the wheel handler, lines 414-433, with the pointer at p
Wheel(p, deltaNeg) ==
    /\ PageOpened
    /\ nGestures < MaxGestures
    /\ nGestures' = nGestures + 1
    /\ scale' = WheelScale(scale, deltaNeg)
    /\ panX' = WheelPan(p[1] - ContainerLeft, panX, scale, scale')
    /\ panY' = WheelPan(p[2] - ContainerTop, panY, scale, scale')
    /\ event' = "wheel"
    /\ UNCHANGED <<pageVars, tooltip, hover, viewport, drag, nClicks>>

\* the mousedown handler, lines 436-443
MouseDown(p) ==
    /\ PageOpened
    /\ nGestures < MaxGestures
    /\ nGestures' = nGestures + 1
    /\ drag' = [dragStartX |-> p[1], dragStartY |-> p[2],
                dragStartPanX |-> panX, dragStartPanY |-> panY]
    /\ event' = "mousedown"
    /\ UNCHANGED <<pageVars, tooltip, hover, viewport, scale, panX, panY,
                   nClicks>>

\* the mousemove handler during a drag, lines 445-469: the pan follows the
\* pointer, then the tooltip is looked up under the moved image
MouseDrag(p) ==
    /\ PageOpened
    /\ isDragging
    /\ panX' = FracAdd(drag.dragStartPanX, FracInt(p[1] - drag.dragStartX))
    /\ panY' = FracAdd(drag.dragStartPanY, FracInt(p[2] - drag.dragStartY))
    /\ LET x == HoverPixel(p[1], ContainerLeft, panX', scale)
           y == HoverPixel(p[2], ContainerTop, panY', scale)
           idx == TooltipIdx(x, y, htmlFile.SIZE)
       IN  /\ hover' = <<x, y>>
           /\ tooltip' = IF TooltipVisible(x, y, idx, htmlFile)
                         THEN [shown |-> TRUE,
                               word |-> htmlFile.WORDS[idx + 1],
                               details |-> <<idx, htmlFile.VALUES[idx + 1]>>]
                         ELSE [tooltip EXCEPT !.shown = FALSE]
    /\ event' = "mousemove"
    /\ UNCHANGED <<pageVars, viewport, scale, drag, countVars>>

\* the mouseup handler, lines 471-474
MouseUp ==
    /\ PageOpened
    /\ drag' = NoDrag
    /\ event' = "mouseup"
    /\ UNCHANGED <<pageVars, tooltip, hover, viewport, scale, panX, panY,
                   countVars>>

\* the window is resized and the container gets size vp: centerImage
\* (line 478)
Resize(vp) ==
    /\ PageOpened
    /\ vp # viewport
    /\ viewport' = vp
    /\ CenterImage(vp, scale)
    /\ event' = "resize"
    /\ UNCHANGED <<pageVars, tooltip, hover, scale, drag, countVars>>

\* the same command line is run again on the same file: a new process, the
\* same tokens, metric and colour; the files the earlier run wrote are still
\* on disk
Rerun ==
    /\ pc = "done"
    /\ exit \in {"ok", "traceback"}
    /\ stdout # <<>> /\ stdout[1] = "Loaded"
    /\ runs < MaxRuns
    /\ runs' = runs + 1
    /\ pc' = "render"
    /\ prevPng' = pngFile
    /\ values' = <<>>
    /\ raised' = "none"
    /\ img' = NoImage
    /\ size' = 0
    /\ word_data' = <<>>
    /\ putlog' = <<>>
    /\ colors' = <<>>
    /\ seeds' = <<>>
    /\ stdout' = <<"Loaded">>
    /\ stderr' = <<>>
    /\ exit' = "running"
    /\ tooltip' = NoTooltip
    /\ hover' = <<>>
    /\ event' = "none"
    /\ viewport' = <<0, 0>>
    /\ scale' = FracInt(1)
    /\ panX' = FracInt(0)
    /\ panY' = FracInt(0)
    /\ drag' = NoDrag
    /\ nClicks' = 0
    /\ nGestures' = 0
    /\ UNCHANGED <<runVars, pngFile, htmlFile>>

Next ==
    \/ MainList
    \/ MainUsage
    \/ MainMissing
    \/ pc = "start" /\ \E text \in Texts, ic \in BOOLEAN, ip \in BOOLEAN, inum \in BOOLEAN,
          m \in MetricNames, c \in ColorNames, h \in BOOLEAN :
            MainLoad(text, ic, ip, inum, m, c, h)
    \/ \E rng0 \in Entropy : MainRender(rng0)
    \/ MainExport
    \/ Rerun

Spec == Init /\ [][Next]_vars

\* The viewer: one run with --html on a file of ViewTexts, then pointer
\* events on the page it wrote.
NextViewer ==
    \/ pc = "start" /\ \E text \in ViewTexts, m \in ViewMetrics :
            MainLoad(text, FALSE, FALSE, FALSE, m, "red-blue", TRUE)
    \/ \E rng0 \in Entropy : MainRender(rng0)
    \/ MainExport
    \/ pc = "done" /\ \E qx2 \in -1..(2 * htmlFile.SIZE), qy2 \in -1..(2 * htmlFile.SIZE) :
            MouseMove(qx2, qy2)

SpecViewer == Init /\ [][NextViewer]_vars

\* The zooming viewer: one run with --html on the file of ZoomTexts, the
\* page opened in a browser, then button, wheel, drag and resize events.
NextZoom ==
    \/ pc = "start" /\ \E text \in ZoomTexts :
            MainLoad(text, FALSE, FALSE, FALSE, "word-position", "red-blue", TRUE)
    \/ \E rng0 \in Entropy : MainRender(rng0)
    \/ MainExport
    \/ \E vp \in Viewports : PageOpen(vp)
    \/ ZoomIn
    \/ ZoomOut
    \/ ResetView
    \/ \E p \in Pointers, deltaNeg \in BOOLEAN : Wheel(p, deltaNeg)
    \/ \E p \in Pointers : MouseDown(p)
    \/ \E p \in Pointers : MouseDrag(p)
    \/ MouseUp
    \/ \E vp \in Viewports : Resize(vp)

SpecZoom == Init /\ [][NextZoom]_vars

\* ================================================================== claims
\* render has been called in this run and has ended (returned or raised)
RenderEnded == pc \in {"export", "done"} /\ stdout # <<>> /\ stdout[1] = "Loaded"

\* draining the metric generator raised
MetricRaised == raised \in {"ValueError", "ZeroDivisionError"}

InGrid(xy, n) == xy[1] \in 0..(n - 1) /\ xy[2] \in 0..(n - 1)

\* C1: every channel of every triple a colour mapper returns for a value in
\* [0,1] is an integer in [0,255].
C1_ChannelsInRange ==
    \A k \in DOMAIN colors : \A ch \in 1..3 : colors[k][ch] \in 0..255

\* C2: for word-freq and word-freq-linear on a non-empty token sequence,
\* every position holding a token of the highest frequency is emitted with
\* the value exactly 1.0.
C2_TopFrequencyIsOne ==
    (RenderEnded /\ metric \in {"word-freq", "word-freq-linear"} /\ words # <<>>)
        => /\ ~MetricRaised
           /\ Len(values) = Len(words)
           /\ \A i \in DOMAIN words :
                (\A j \in DOMAIN words :
                    Cardinality({k \in DOMAIN words : words[k] = words[j]})
                        <= Cardinality({k \in DOMAIN words : words[k] = words[i]}))
                    => values[i][1] = values[i][2]

\* C3: on n tokens a per-token metric emits n values and a bigram metric
\* emits n - 1 values (0 when n < 2), value k labelled with token k (or
\* with the pair of tokens k, k+1).
C3_OutputLength ==
    RenderEnded
        => /\ ~MetricRaised
           /\ Len(values) = IF metric \in BigramMetrics
                            THEN (IF Len(words) >= 2 THEN Len(words) - 1 ELSE 0)
                            ELSE Len(words)
           /\ raised = "none"
                => /\ Len(word_data) = Len(values)
                   /\ \A k \in DOMAIN values :
                        /\ word_data[k][2] = values[k]
                        /\ word_data[k][1] = IF metric \in BigramMetrics
                                             THEN <<words[k], words[k + 1]>>
                                             ELSE <<words[k]>>

\* C4: degenerate input is not an error: on an empty token sequence every
\* generator ends with an empty value sequence and raises nothing, and on
\* fewer than two tokens so do both bigram generators.
C4_DegenerateIsNoError ==
    (RenderEnded /\ (words = <<>> \/ (metric \in BigramMetrics /\ Len(words) < 2)))
        => ~MetricRaised /\ values = <<>>

\* C5: for n >= 1 values render produces a square raster of side
\* ceil(sqrt(n)); every index is written inside the grid, no two indices
\* write the same pixel, and every pixel of row-major index >= n keeps the
\* background (0,0,0).
C5_SquareRaster ==
    (RenderEnded /\ values # <<>>)
        => LET n == Len(values)
           IN  /\ raised = "none"
               /\ img.present
               /\ img.size = size
               /\ size * size >= n /\ (size - 1) * (size - 1) < n
               /\ DOMAIN img.px = (0..(size - 1)) \X (0..(size - 1))
               /\ Len(putlog) = n
               /\ \A i \in 1..n : InGrid(putlog[i], size)
               /\ \A i, j \in 1..n : putlog[i] = putlog[j] => i = j
               /\ \A xy \in DOMAIN img.px :
                    xy[2] * size + xy[1] >= n => img.px[xy] = <<0, 0, 0>>
               /\ pngFile = img

C5_Witness ==
    /\ RenderEnded
    /\ Len(values) = 3
    /\ size = 2
    /\ img.px[<<0, 0>>] # <<0, 0, 0>>
    /\ img.px[<<1, 1>>] = <<0, 0, 0>>

\* C6: the renderer places value i at (i mod size, i div size), the
\* viewer's lookup y*SIZE + x for that pixel recovers i, and the tooltip
\* shows a label exactly for pixels with 0 <= x,y < SIZE and idx < number
\* of labels.
C6_IndexRoundTrip ==
    /\ (RenderEnded /\ raised = "none")
          => \A i \in 0..(Len(values) - 1) :
                /\ putlog[i + 1] = <<i % size, i \div size>>
                /\ putlog[i + 1][2] * size + putlog[i + 1][1] = i
    /\ hover # <<>>
          => LET x == hover[1]
                 y == hover[2]
                 labelled == /\ 0 <= x /\ x < size
                             /\ 0 <= y /\ y < size
                             /\ y * size + x < Len(word_data)
             IN  /\ htmlFile.SIZE = size
                 /\ Len(htmlFile.WORDS) = Len(word_data)
                 /\ tooltip.shown <=> labelled
                 /\ tooltip.shown
                      => \E i \in 0..(Len(values) - 1) :
                            /\ putlog[i + 1] = hover
                            /\ tooltip.details[1] = i
                            /\ tooltip.word = word_data[i + 1][1]

C6_Witness ==
    /\ tooltip.shown
    /\ htmlFile.SIZE = 3
    /\ hover = <<1, 1>>
    /\ tooltip.details[1] = 4
    /\ putlog[5] = <<1, 1>>

\* C7: unique-word gives distinct tokens the ids 0, 1, 2, ... in order of
\* first occurrence, repeats reusing the id; each value is
\* id / (distinctCount - 1) when distinctCount > 1, and 0.0 when there is
\* one distinct token.
C7_UniqueWordIds ==
    (RenderEnded /\ metric = "unique-word")
        => LET distinct == Cardinality({words[i] : i \in DOMAIN words})
               first(i) == CHOOSE j \in 1..i :
                              words[j] = words[i] /\ \A k \in 1..(j - 1) : words[k] # words[i]
               id(i) == Cardinality({words[k] : k \in 1..(first(i) - 1)})
           IN  /\ ~MetricRaised
               /\ Len(values) = Len(words)
               /\ \A i \in DOMAIN words :
                    IF distinct > 1
                    THEN values[i][1] * (distinct - 1) = id(i) * values[i][2]
                    ELSE values[i][1] = 0

C7_Witness ==
    /\ RenderEnded
    /\ metric = "unique-word"
    /\ words = <<".", "The", ".", "42">>
    /\ values = <<<<0, 2>>, <<1, 2>>, <<0, 2>>, <<2, 2>>>>

\* C8: when the value sequence is empty the diagnostic is printed, no image
\* is written, render returns (None, 0, []), the HTML export is skipped
\* even with --html, and the process completes normally.
C8_EmptyValuesRun ==
    (RenderEnded /\ values = <<>> /\ ~MetricRaised)
        => /\ stderr = <<"No values to render">>
           /\ stdout = <<"Loaded">>
           /\ pngFile = NoImage
           /\ img = NoImage /\ size = 0 /\ word_data = <<>>
           /\ htmlFile = NoHtml
           /\ raised = "none"
           /\ exit = IF pc = "done" THEN "ok" ELSE "running"

C8_Witness ==
    /\ pc = "done"
    /\ exit = "ok"
    /\ html
    /\ metric = "bigram-prob"
    /\ Len(words) = 1
    /\ values = <<>>
    /\ stderr = <<"No values to render">>

\* C9: two runs on the same tokens with the same metric and colour mapper
\* write identical pixel grids; the random mapper returns the same triple
\* for the same value whatever calls and draws came before.
C9_Deterministic ==
    /\ (RenderEnded /\ runs > 1)
          => /\ ("Saved png" \in {stdout[k] : k \in DOMAIN stdout}) <=> prevPng.present
             /\ pngFile = prevPng
    /\ (RenderEnded /\ raised = "none" /\ color = "random")
          => \A i, j \in DOMAIN values :
                FracEq(Clamp(values[i]), Clamp(values[j])) => colors[i] = colors[j]

C9_Witness ==
    /\ RenderEnded
    /\ runs = 2
    /\ color = "random"
    /\ Len(values) = 3
    /\ prevPng.present
    /\ colors[1] = colors[3]
    /\ colors[1] # colors[2]

\* C10 as stated: the random mapper seeds the generator from
\* round(v*10000), and two values get the same seed exactly when their
\* round(v*10000) are equal.
C10_SeedIsRound ==
    (RenderEnded /\ raised = "none" /\ color = "random")
        => /\ Len(seeds) = Len(values)
           /\ \A i \in DOMAIN values :
                seeds[i] = PyRound(Clamp(values[i])[1] * 10000, Clamp(values[i])[2])
           /\ \A i, j \in DOMAIN values :
                seeds[i] = seeds[j]
                    <=> PyRound(Clamp(values[i])[1] * 10000, Clamp(values[i])[2])
                        = PyRound(Clamp(values[j])[1] * 10000, Clamp(values[j])[2])

\* C10 amended: the random mapper seeds the generator from int(v*10000),
\* v*10000 truncated; two values get the same seed exactly when their
\* int(v*10000) are equal, and values with the same seed get the same
\* colour.
C10_SeedIsTruncation ==
    (RenderEnded /\ raised = "none" /\ color = "random")
        => /\ Len(seeds) = Len(values)
           /\ \A i \in DOMAIN values :
                LET v == Clamp(values[i])
                IN  /\ seeds[i] * v[2] <= v[1] * 10000
                    /\ v[1] * 10000 < (seeds[i] + 1) * v[2]
           /\ \A i, j \in DOMAIN values :
                LET vi == Clamp(values[i])
                    vj == Clamp(values[j])
                IN  /\ seeds[i] = seeds[j]
                        <=> (vi[1] * 10000) \div vi[2] = (vj[1] * 10000) \div vj[2]
                    /\ seeds[i] = seeds[j] => colors[i] = colors[j]

C10_Witness ==
    /\ RenderEnded
    /\ color = "random"
    /\ values = <<<<0, 3>>, <<1, 3>>, <<2, 3>>>>
    /\ seeds = <<0, 3333, 6666>>

\* ---------------------------------------------------------------- C11
\* the events that only move the image
PanEvents == {"mousedown", "mousemove", "mouseup", "resize"}

ScaleInRange == FracLe(MinScale, scale) /\ FracLe(scale, MaxScale)

\* C11: the viewer starts at scale 1; after any sequence of zoomIn, zoomOut,
\* resetView, wheel, drag and resize events the scale is within [0.1, 200];
\* the drag events (mousedown, mousemove, mouseup) and the resize event
\* leave the scale as it was.
C11_ScaleInRange ==
    /\ [](event \in {"none", "load"} => scale = FracInt(1))
    /\ []ScaleInRange
    /\ [][event' \in PanEvents => scale' = scale]_vars

\* zoomOut has stopped at the lower limit, and the image is being dragged
\* at that scale
C11_Witness ==
    /\ event = "mousemove"
    /\ isDragging
    /\ scale = MinScale
    /\ nClicks >= 6
    /\ panX # drag.dragStartPanX

====
